---- MODULE Spec2Model ----
(***************************************************************************)
(* Model of ocr.py: the page-parallel OCR pipeline (process, the worker    *)
(* loop process_page, the per-page step ocr_page) and the pure helper      *)
(* compute_dpi.                                                            *)
(*                                                                         *)
(* File names are sequences of character codes, relative to the workspace  *)
(* directory, so that sorted(), glob() and os.path.splitext() are computed *)
(* on the names as the code computes them.                                 *)
(***************************************************************************)
EXTENDS Integers, Sequences, FiniteSets, TLC

\* ---------------------------------------------------------------- bounds
MaxPages == 2
MaxJobs == 2
MaxPoint == 16
MaxPixel == 3
MaxScale == 4

\* ------------------------------------------------------------ file names
\* extensions, as character codes
PPM == <<112, 112, 109>>
PBM == <<112, 98, 109>>
JPG == <<106, 112, 103>>
PNG == <<112, 110, 103>>
HTML == <<104, 116, 109, 108>>
PDF == <<112, 100, 102>>

\* '.' as a one-character string
DOT == <<46>>

\* pdfimages names its k-th image "<root>-%03d.<type>"; the root is the
\* workspace directory itself (a path ending in '/'), so the file name is
\* "-kkk.<type>"
ImageName(k, type) ==
    <<45, 48 + (k \div 100), 48 + ((k \div 10) % 10), 48 + (k % 10)>> \o DOT \o type

\* the image types pdfimages writes that extract_images collects
ImageTypes == {PPM, PBM, JPG}

\* string comparison a < b, as Python compares str
RECURSIVE StrLess(_, _)
StrLess(a, b) ==
    IF b = <<>> THEN FALSE
    ELSE IF a = <<>> THEN TRUE
    ELSE IF Head(a) # Head(b) THEN Head(a) < Head(b)
    ELSE StrLess(Tail(a), Tail(b))

\* sorted(names), list.sort(): ascending
RECURSIVE sorted(_)
sorted(S) ==
    IF S = {} THEN <<>>
    ELSE LET m == CHOOSE x \in S : \A y \in S : x = y \/ StrLess(x, y)
         IN  <<m>> \o sorted(S \ {m})

\* glob(os.path.join(dir, '*.<ext>')): the names ending in ".<ext>" that do
\* not start with a dot
glob(dir, ext) ==
    LET suffix == DOT \o ext
    IN  {f \in dir : /\ Len(f) >= Len(suffix)
                     /\ SubSeq(f, Len(f) - Len(suffix) + 1, Len(f)) = suffix
                     /\ f[1] # 46}

\* os.path.splitext(name)[0]: the name up to its last dot (leading dots are
\* not extension separators)
splitext_base(name) ==
    LET dots == {i \in 2..Len(name) : name[i] = 46 /\ \E j \in 1..(i-1) : name[j] # 46}
    IN  IF dots = {} THEN name
        ELSE SubSeq(name, 1, (CHOOSE i \in dots : \A j \in dots : j <= i) - 1)

\* ------------------------------------------------------------ compute_dpi
\* int(round(n * 72. / d)) for positive n, d: Python 2 round() rounds to the
\* nearest integer, halves away from zero
RoundTrunc(n, d) == (72 * n) \div d
round72(n, d) == (2 * 72 * n + d) \div (2 * d)

compute_dpi(pdf_w, pdf_h, image_w, image_h) ==
    <<round72(image_w, pdf_w), round72(image_h, pdf_h)>>

\* --------------------------------------------------------- get_paper_type
\* PAPER_SIZES: (width mm, height mm) -> name, as <<width, height, name>>
PAPER_SIZES ==
    { <<841, 1189, "A0">>, <<594, 841, "A1">>, <<420, 594, "A2">>,
      <<297, 420, "A3">>, <<210, 297, "A4">>, <<148, 210, "A5">>,
      <<105, 148, "A6">>, <<74, 105, "A7">>, <<52, 74, "A8">>,
      <<250, 353, "B4">>, <<176, 250, "B5">>, <<125, 176, "B6">>,
      <<215, 279, "US Letter">> }

\* int(dots / 7.2 * 2.54): int() truncates; dots / 7.2 * 2.54 is
\* dots * 127 / 360
mm_round(dots) == (2 * 127 * dots + 360) \div (2 * 360)
mm(dots) == (127 * dots) \div 360

\* PAPER_SIZES[(a, b)]
paper_size(a, b) == (CHOOSE e \in PAPER_SIZES : e[1] = a /\ e[2] = b)[3]

\* the if / elif / else of get_paper_type; a returned string is the pair
\* <<name, suffix>> of the two strings concatenated
paper_name_no_landscape(w_mm, h_mm) ==
    IF \E e \in PAPER_SIZES : e[1] = w_mm /\ e[2] = h_mm
        THEN <<paper_size(w_mm, h_mm), "">>
    ELSE IF \E e \in PAPER_SIZES : e[1] = h_mm /\ e[2] = w_mm
        THEN <<paper_size(h_mm, w_mm), "">>
    ELSE <<"", "">>
paper_name(w_mm, h_mm) ==
    IF \E e \in PAPER_SIZES : e[1] = w_mm /\ e[2] = h_mm
        THEN <<paper_size(w_mm, h_mm), "">>
    ELSE IF \E e \in PAPER_SIZES : e[1] = h_mm /\ e[2] = w_mm
        THEN <<paper_size(h_mm, w_mm), ", landscape">>
    ELSE <<"", "">>

get_paper_type(wdots, hdots) == paper_name(mm(wdots), mm(hdots))

\* ------------------------------------------------------------------ state
VARIABLES
    pc,               \* the coordinator's position in process()
    raised,           \* an exception is propagating out of process()
    tmp,              \* the workspace directory: "none", "exists", "removed"
    files,            \* the names of the files in the workspace directory
    output,           \* the output file: <<"absent">> or <<"written", pages>>
    jobs,             \* process(jobs=...)
    resolution,       \* the resolution table of process()
    images,           \* the sorted image list of process()
    num_workers,      \* the number of threads started
    pages,            \* the page list handed to merge_pdf
    idx,              \* the number of (idx, image) pairs put so far
    stages,           \* history: the steps of process() executed, in order
    queue,            \* Queue: the items waiting to be taken
    unfinished_tasks, \* Queue.unfinished_tasks: puts minus task_done calls
    wpc,              \* each worker thread's position in process_page
    wunit,            \* each worker's (page, image)
    wdpi,             \* each worker's (dpi_w, dpi_h) in ocr_page
    wexc,             \* an exception is propagating in the worker
    wlog,             \* history: each worker's tool calls for its unit,
                      \* <<tool, succeeded, (dpi_w, dpi_h) after the call>>
    image_sizes,      \* the pixel sizes identify may report for an image
    dispatched,       \* history: the items put, in order
    gets,             \* history: per page index, how often it was dequeued
    acked,            \* history: per page index, the task_done calls for it
    unacked,          \* history: per worker, units dequeued and not yet acked
    rendered,         \* history: per page index, the paths ocr_page returned
    failed,           \* history: the page indices whose step raised
    toolFailed,       \* history: an external tool invocation has failed
    merges,           \* history: the page lists merge_pdf was invoked with
    dpi_args,         \* the arguments of a direct compute_dpi call
    dpi_ret,          \* its result, <<>> before the call
    dpi_scaled,       \* <<k, result>> of a second call with the image size
                      \* multiplied by k, <<>> before that call
    paper_args,       \* the arguments of a direct get_paper_type call
    paper_mm,         \* its locals (w_mm, h_mm), <<>> before the call
    paper_ret         \* its result, <<>> before the call

coordVars ==
    <<pc, raised, tmp, output, jobs, resolution, images, num_workers, pages, idx, stages>>
queueVars == <<queue, unfinished_tasks>>
workerVars == <<wpc, wunit, wdpi, wexc, wlog>>
histVars == <<dispatched, gets, acked, unacked, rendered, failed, merges>>
fnVars == <<dpi_args, dpi_ret, dpi_scaled, paper_args, paper_mm, paper_ret>>
vars ==
    <<coordVars, files, queueVars, workerVars, histVars, toolFailed, fnVars, image_sizes>>

\* the point size 'identify' reports for every page of the document, and
\* the pixel sizes it reports for an extracted image (a 300 dpi and a
\* 600 dpi scan of that page)
PageSize == <<611, 792>>
ImageSizes == {<<2544, 3300>>, <<5088, 6600>>}

\* more pixel sizes: widths that give 300, 599, 600 and 601 dpi on a page
\* 611 points wide, heights that give 300 and 600 dpi on 792 points
ManyImageSizes == {2544, 5080, 5088, 5100} \X {3300, 6600}

NoUnit == <<0, <<>>>>
Workers == DOMAIN wpc
PageIds == 1..MaxPages

\* process(input_file, output_file, lang='eng', jobs=4)
DefaultJobs == 4

\* the state at the call of process(), the jobs argument aside
ProcessCalled ==
    /\ pc = "mkdtemp"
    /\ raised = FALSE
    /\ tmp = "none"
    /\ files = {}
    /\ output = <<"absent">>
    /\ resolution = <<>>
    /\ images = <<>>
    /\ num_workers = 0
    /\ pages = <<>>
    /\ idx = 0
    /\ stages = <<>>
    /\ queue = <<>>
    /\ unfinished_tasks = 0
    /\ wpc = <<>>
    /\ wunit = <<>>
    /\ wdpi = <<>>
    /\ wexc = <<>>
    /\ wlog = <<>>
    /\ dispatched = <<>>
    /\ gets = [p \in PageIds |-> 0]
    /\ acked = [p \in PageIds |-> 0]
    /\ unacked = <<>>
    /\ rendered = [p \in PageIds |-> {}]
    /\ failed = {}
    /\ toolFailed = FALSE
    /\ merges = <<>>

\* no direct call of compute_dpi, of get_paper_type
NoDpiCall == dpi_args = <<>> /\ dpi_ret = <<>> /\ dpi_scaled = <<>>
NoPaperCall == paper_args = <<>> /\ paper_mm = <<>> /\ paper_ret = <<>>

Init ==
    /\ ProcessCalled
    /\ jobs \in 0..MaxJobs
    /\ image_sizes = ImageSizes
    /\ NoDpiCall
    /\ NoPaperCall

\* ------------------------------------------------------------ coordinator
\* an exception inside the try block of process(): control goes to the
\* finally clause, the exception propagates after it
RaiseSkippingFinally == pc' = "done" /\ raised' = TRUE
RaiseInTry == pc' = "rmtree" /\ raised' = TRUE

\* tmp = os.path.join(mkdtemp(), ''), before the try block
mkdtemp ==
    /\ pc = "mkdtemp"
    /\ stages' = Append(stages, "mkdtemp")
    /\ \/ tmp' = "exists" /\ pc' = "get_resolution" /\ raised' = raised
       \/ tmp' = tmp /\ pc' = "done" /\ raised' = TRUE
    /\ UNCHANGED <<output, jobs, resolution, images, num_workers, pages, idx>>
    /\ UNCHANGED <<files, queueVars, workerVars, histVars, toolFailed, fnVars, image_sizes>>

\* resolution = get_resolution(input_file); w, h = resolution[0]
get_resolution ==
    /\ pc = "get_resolution"
    /\ stages' = Append(stages, "get_resolution")
    /\ \/ \E n \in 0..MaxPages :
            /\ resolution' = [i \in 1..n |-> PageSize]
            /\ IF n = 0 THEN RaiseInTry
                        ELSE pc' = "extract_images" /\ raised' = raised
            /\ toolFailed' = toolFailed
       \/ resolution' = resolution /\ RaiseInTry /\ toolFailed' = TRUE
    /\ UNCHANGED <<tmp, output, jobs, images, num_workers, pages, idx>>
    /\ UNCHANGED <<files, queueVars, workerVars, histVars, fnVars, image_sizes>>

\* images = extract_images(input_file, tmp)
extract_images ==
    /\ pc = "extract_images"
    /\ stages' = Append(stages, "extract_images")
    /\ \/ \E n \in 0..MaxPages : \E type \in [1..n -> ImageTypes] :
            /\ files' = files \cup {ImageName(k - 1, type[k]) : k \in 1..n}
            /\ images' = sorted(glob(files', PPM) \cup glob(files', PBM)
                                  \cup glob(files', JPG))
            /\ pc' = "start_workers" /\ raised' = raised
            /\ toolFailed' = toolFailed
       \/ files' = files /\ images' = images /\ RaiseInTry /\ toolFailed' = TRUE
    /\ UNCHANGED <<tmp, output, jobs, resolution, num_workers, pages, idx>>
    /\ UNCHANGED <<queueVars, workerVars, histVars, fnVars, image_sizes>>

Min(a, b) == IF a <= b THEN a ELSE b

\* num_workers = min(len(images), jobs)
NumWorkersJobs == jobs
NumWorkersImages == Len(images)
NumWorkers == Min(Len(images), jobs)

\* queue = Queue(); start_workers(num_workers, queue, lang, resolution)
start_workers ==
    /\ pc = "start_workers"
    /\ stages' = Append(stages, "start_workers")
    /\ num_workers' = NumWorkers
    /\ wpc' = [w \in 1..num_workers' |-> "get"]
    /\ wunit' = [w \in 1..num_workers' |-> NoUnit]
    /\ wdpi' = [w \in 1..num_workers' |-> <<0, 0>>]
    /\ wexc' = [w \in 1..num_workers' |-> FALSE]
    /\ wlog' = [w \in 1..num_workers' |-> <<>>]
    /\ unacked' = [w \in 1..num_workers' |-> 0]
    /\ pc' = IF Len(images) = 0 THEN "join" ELSE "put"
    /\ UNCHANGED <<raised, tmp, output, jobs, resolution, images, pages, idx>>
    /\ UNCHANGED <<files, queueVars, toolFailed, fnVars, image_sizes>>
    /\ UNCHANGED <<dispatched, gets, acked, rendered, failed, merges>>

\* the k-th item of enumerate(images, start=1)
enumerate(k) == <<k, images[k]>>

\* for idx, image in enumerate(images, start=1): queue.put((idx, image))
put ==
    /\ pc = "put"
    /\ stages' = IF idx = 0 THEN Append(stages, "put") ELSE stages
    /\ idx < Len(images)
    /\ idx' = idx + 1
    /\ queue' = Append(queue, enumerate(idx'))
    /\ unfinished_tasks' = unfinished_tasks + 1
    /\ dispatched' = Append(dispatched, enumerate(idx'))
    /\ pc' = IF idx' = Len(images) THEN "join" ELSE "put"
    /\ UNCHANGED <<raised, tmp, output, jobs, resolution, images, num_workers, pages>>
    /\ UNCHANGED <<files, workerVars, toolFailed, fnVars, image_sizes>>
    /\ UNCHANGED <<gets, acked, unacked, rendered, failed, merges>>

\* queue.join(): blocks until unfinished_tasks is zero
JoinNoWait == TRUE
JoinMayReturn == unfinished_tasks = 0

join ==
    /\ pc = "join"
    /\ stages' = Append(stages, "join")
    /\ JoinMayReturn
    /\ pc' = "glob"
    /\ UNCHANGED <<raised, tmp, output, jobs, resolution, images, num_workers, pages, idx>>
    /\ UNCHANGED <<files, queueVars, workerVars, histVars, toolFailed, fnVars, image_sizes>>

\* pages = sorted(glob(os.path.join(tmp, '*.pdf')))
collect_pages_unsorted(dir) ==
    LET s == sorted(glob(dir, PDF)) IN [i \in 1..Len(s) |-> s[Len(s) + 1 - i]]
collect_pages(dir) == sorted(glob(dir, PDF))

glob_pages ==
    /\ pc = "glob"
    /\ stages' = Append(stages, "glob")
    /\ pages' = collect_pages(files)
    /\ pc' = "merge_pdf"
    /\ UNCHANGED <<raised, tmp, output, jobs, resolution, images, num_workers, idx>>
    /\ UNCHANGED <<files, queueVars, workerVars, histVars, toolFailed, fnVars, image_sizes>>

\* merge_pdf(pages, output_file): gs writes the output file from the pages
merge_pdf ==
    /\ pc = "merge_pdf"
    /\ stages' = Append(stages, "merge_pdf")
    /\ merges' = Append(merges, pages)
    /\ \/ output' = <<"written", pages>> /\ pc' = "ls" /\ raised' = raised
          /\ toolFailed' = toolFailed
       \/ output' = output /\ RaiseInTry /\ toolFailed' = TRUE
    /\ UNCHANGED <<tmp, jobs, resolution, images, num_workers, pages, idx>>
    /\ UNCHANGED <<files, queueVars, workerVars, fnVars, image_sizes>>
    /\ UNCHANGED <<dispatched, gets, acked, unacked, rendered, failed>>

\* check_call(['ls', '-lh', input_file, output_file])
ls ==
    /\ pc = "ls"
    /\ stages' = Append(stages, "ls")
    /\ \/ pc' = "rmtree" /\ raised' = raised /\ toolFailed' = toolFailed
       \/ RaiseInTry /\ toolFailed' = TRUE
    /\ UNCHANGED <<tmp, output, jobs, resolution, images, num_workers, pages, idx>>
    /\ UNCHANGED <<files, queueVars, workerVars, histVars, fnVars, image_sizes>>

\* finally: rmtree(tmp); then process() returns or the exception propagates
rmtree ==
    /\ pc = "rmtree"
    /\ stages' = Append(stages, "rmtree")
    /\ tmp' = "removed"
    /\ files' = {}
    /\ pc' = "done"
    /\ UNCHANGED <<raised, output, jobs, resolution, images, num_workers, pages, idx>>
    /\ UNCHANGED <<queueVars, workerVars, histVars, toolFailed, fnVars, image_sizes>>

\* ---------------------------------------------------------------- workers
\* try: ... finally: queue.task_done(): where an exception raised inside the
\* try block takes the worker, and where the worker goes after the finally
\* clause (an exception still propagating ends the thread)
OnExceptionNoFinally == "dead"
OnException == "finally"
AfterFinally(exc) == IF exc THEN "dead" ELSE "get"

\* what queue.get() leaves in the queue
QueuePeekRest(q) == q
QueueGetRest(q) == Tail(q)

\* page, image = queue.get(); width, height = resolution[page-1]
queue_get(w) ==
    /\ wpc[w] = "get"
    /\ queue # <<>>
    /\ LET unit == Head(queue)
           page == unit[1]
       IN  /\ queue' = QueueGetRest(queue)
           /\ wunit' = [wunit EXCEPT ![w] = unit]
           /\ gets' = [gets EXCEPT ![page] = @ + 1]
           /\ unacked' = [unacked EXCEPT ![w] = @ + 1]
           /\ IF page - 1 < Len(resolution)
                 THEN /\ wpc' = [wpc EXCEPT ![w] = "identify"]
                      /\ wexc' = wexc
                      /\ failed' = failed
                 ELSE /\ wpc' = [wpc EXCEPT ![w] = OnException]
                      /\ wexc' = [wexc EXCEPT ![w] = TRUE]
                      /\ failed' = failed \cup {page}
    /\ UNCHANGED <<coordVars, files, unfinished_tasks, wdpi, wlog, toolFailed, fnVars, image_sizes>>
    /\ UNCHANGED <<dispatched, acked, rendered, merges>>

\* an external tool invoked by ocr_page exits non-zero: check_call raises
ToolFails(w) ==
    /\ wpc' = [wpc EXCEPT ![w] = OnException]
    /\ wexc' = [wexc EXCEPT ![w] = TRUE]
    /\ failed' = failed \cup {wunit[w][1]}
    /\ toolFailed' = TRUE

\* the record of a tool call of ocr_page
Logged(w, tool, ok, dpi) ==
    wlog' = [wlog EXCEPT ![w] = Append(@, <<tool, ok, dpi>>)]

\* the statement ocr_page executes after convert
AfterConvertResize == "mogrify"
AfterConvert == "tesseract"

\* the resize threshold of ocr_page
ResizeDpi == 600

\* if dpi_w >= 600: the statement ocr_page executes after tesseract
AfterTesseractStrict(dpi) == IF dpi[1] > ResizeDpi THEN "mogrify" ELSE "hocr2pdf"
AfterTesseract(dpi) == IF dpi[1] >= ResizeDpi THEN "mogrify" ELSE "hocr2pdf"

\* the files ocr_page names from its image
png_of(image) == splitext_base(image) \o DOT \o PNG
hocr_of(image) == splitext_base(image) \o DOT \o HTML
pdf_of_shared(image) == <<111, 117, 116>> \o DOT \o PDF
pdf_of(image) == splitext_base(image) \o DOT \o PDF

\* w, h = get_resolution(image)[0]; dpi_w, dpi_h = compute_dpi(width, height, w, h)
identify(w) ==
    /\ wpc[w] = "identify"
    /\ \/ \E px \in image_sizes :
            /\ wdpi' = [wdpi EXCEPT ![w] =
                   compute_dpi(resolution[wunit[w][1]][1], resolution[wunit[w][1]][2],
                               px[1], px[2])]
            /\ Logged(w, "identify", TRUE, wdpi'[w])
            /\ wpc' = [wpc EXCEPT ![w] = "convert"]
            /\ UNCHANGED <<wexc, failed, toolFailed>>
       \/ ToolFails(w) /\ wdpi' = wdpi /\ Logged(w, "identify", FALSE, wdpi[w])
    /\ UNCHANGED <<coordVars, files, queueVars, wunit, fnVars, image_sizes>>
    /\ UNCHANGED <<dispatched, gets, acked, unacked, rendered, merges>>

\* check_call(["convert", image, png])
convert(w) ==
    /\ wpc[w] = "convert"
    /\ \/ /\ files' = files \cup {png_of(wunit[w][2])}
          /\ wpc' = [wpc EXCEPT ![w] = AfterConvert]
          /\ Logged(w, "convert", TRUE, wdpi[w])
          /\ UNCHANGED <<wexc, failed, toolFailed>>
       \/ ToolFails(w) /\ files' = files /\ Logged(w, "convert", FALSE, wdpi[w])
    /\ UNCHANGED <<coordVars, queueVars, wunit, wdpi, fnVars, image_sizes>>
    /\ UNCHANGED <<dispatched, gets, acked, unacked, rendered, merges>>

\* check_call(["tesseract", png, base, '-l', lang, 'hocr']); if dpi_w >= 600
tesseract(w) ==
    /\ wpc[w] = "tesseract"
    /\ \/ /\ files' = files \cup {hocr_of(wunit[w][2])}
          /\ wpc' = [wpc EXCEPT ![w] = AfterTesseract(wdpi[w])]
          /\ Logged(w, "tesseract", TRUE, wdpi[w])
          /\ UNCHANGED <<wexc, failed, toolFailed>>
       \/ ToolFails(w) /\ files' = files /\ Logged(w, "tesseract", FALSE, wdpi[w])
    /\ UNCHANGED <<coordVars, queueVars, wunit, wdpi, fnVars, image_sizes>>
    /\ UNCHANGED <<dispatched, gets, acked, unacked, rendered, merges>>

\* check_call(["mogrify", "-resize", "50%", png]); dpi_w = dpi_w / 2
mogrify(w) ==
    /\ wpc[w] = "mogrify"
    /\ \/ /\ wdpi' = [wdpi EXCEPT ![w] = <<wdpi[w][1] \div 2, wdpi[w][2]>>]
          /\ wpc' = [wpc EXCEPT ![w] = "hocr2pdf"]
          /\ Logged(w, "mogrify", TRUE, wdpi'[w])
          /\ UNCHANGED <<wexc, failed, toolFailed>>
       \/ ToolFails(w) /\ wdpi' = wdpi /\ Logged(w, "mogrify", FALSE, wdpi[w])
    /\ UNCHANGED <<coordVars, files, queueVars, wunit, fnVars, image_sizes>>
    /\ UNCHANGED <<dispatched, gets, acked, unacked, rendered, merges>>

\* html = os.open(hocr, os.O_RDONLY); check_call(['hocr2pdf', ...]); return pdf
hocr2pdf(w) ==
    /\ wpc[w] = "hocr2pdf"
    /\ \/ /\ hocr_of(wunit[w][2]) \in files
          /\ files' = files \cup {pdf_of(wunit[w][2])}
          /\ rendered' = [rendered EXCEPT ![wunit[w][1]] = @ \cup {pdf_of(wunit[w][2])}]
          /\ wpc' = [wpc EXCEPT ![w] = "finally"]
          /\ Logged(w, "hocr2pdf", TRUE, wdpi[w])
          /\ UNCHANGED <<wexc, failed, toolFailed>>
       \/ /\ ToolFails(w) /\ files' = files /\ rendered' = rendered
          /\ Logged(w, "hocr2pdf", FALSE, wdpi[w])
    /\ UNCHANGED <<coordVars, queueVars, wunit, wdpi, fnVars, image_sizes>>
    /\ UNCHANGED <<dispatched, gets, acked, unacked, merges>>

\* finally: queue.task_done(); then the next iteration of while True, or the
\* exception leaves process_page and the thread ends
task_done(w) ==
    /\ wpc[w] = "finally"
    /\ unfinished_tasks' = unfinished_tasks - 1
    /\ acked' = [acked EXCEPT ![wunit[w][1]] = @ + 1]
    /\ unacked' = [unacked EXCEPT ![w] = @ - 1]
    /\ wpc' = [wpc EXCEPT ![w] = AfterFinally(wexc[w])]
    /\ wunit' = [wunit EXCEPT ![w] = NoUnit]
    /\ wdpi' = [wdpi EXCEPT ![w] = <<0, 0>>]
    /\ wlog' = [wlog EXCEPT ![w] = <<>>]
    /\ UNCHANGED <<coordVars, files, queue, wexc, toolFailed, fnVars, image_sizes>>
    /\ UNCHANGED <<dispatched, gets, rendered, failed, merges>>

\* -------------------------------------------------------- specifications
Next ==
    \/ mkdtemp
    \/ get_resolution
    \/ extract_images
    \/ start_workers
    \/ put
    \/ join
    \/ glob_pages
    \/ merge_pdf
    \/ ls
    \/ rmtree
    \/ \E w \in Workers : queue_get(w)
    \/ \E w \in Workers : identify(w)
    \/ \E w \in Workers : convert(w)
    \/ \E w \in Workers : tesseract(w)
    \/ \E w \in Workers : mogrify(w)
    \/ \E w \in Workers : hocr2pdf(w)
    \/ \E w \in Workers : task_done(w)

Spec == Init /\ [][Next]_vars

\* process() with one job, over the larger set of image sizes
InitOcr ==
    /\ ProcessCalled
    /\ jobs = 1
    /\ image_sizes = ManyImageSizes
    /\ NoDpiCall
    /\ NoPaperCall

SpecOcr == InitOcr /\ [][Next]_vars

\* the threads: the coordinator (the caller of process()) and worker w
coordinator ==
    \/ mkdtemp \/ get_resolution \/ extract_images \/ start_workers \/ put
    \/ join \/ glob_pages \/ merge_pdf \/ ls \/ rmtree

process_page(w) ==
    /\ w \in Workers
    /\ \/ queue_get(w) \/ identify(w) \/ convert(w) \/ tesseract(w)
       \/ mogrify(w) \/ hocr2pdf(w) \/ task_done(w)

\* every thread that can take a step eventually takes one
FairSpec ==
    /\ Spec
    /\ WF_vars(coordinator)
    /\ \A w \in 1..MaxJobs : WF_vars(process_page(w))

\* compute_dpi called directly, as tests.py calls it
PointDims == (1..MaxPoint) \cup {611, 792}
PixelDims == (1..MaxPixel) \cup {2544, 3300}

InitDpi ==
    /\ ProcessCalled
    /\ jobs = DefaultJobs
    /\ image_sizes = ImageSizes
    /\ dpi_args \in PointDims \X PointDims \X PixelDims \X PixelDims
    /\ dpi_ret = <<>>
    /\ dpi_scaled = <<>>
    /\ NoPaperCall

call_compute_dpi ==
    /\ dpi_ret = <<>>
    /\ dpi_ret' = compute_dpi(dpi_args[1], dpi_args[2], dpi_args[3], dpi_args[4])
    /\ UNCHANGED <<coordVars, files, queueVars, workerVars, histVars, toolFailed, dpi_args>>
    /\ UNCHANGED <<dpi_scaled, paper_args, paper_mm, paper_ret, image_sizes>>

NextDpi == call_compute_dpi

SpecDpi == InitDpi /\ [][NextDpi]_vars

\* a second call, compute_dpi(w, h, k*iw, k*ih)
call_compute_dpi_scaled ==
    /\ dpi_ret # <<>>
    /\ dpi_scaled = <<>>
    /\ \E k \in 1..MaxScale :
          dpi_scaled' = <<k, compute_dpi(dpi_args[1], dpi_args[2],
                                         k * dpi_args[3], k * dpi_args[4])>>
    /\ UNCHANGED <<coordVars, files, queueVars, workerVars, histVars, toolFailed>>
    /\ UNCHANGED <<dpi_args, dpi_ret, paper_args, paper_mm, paper_ret, image_sizes>>

NextDpiScale == call_compute_dpi \/ call_compute_dpi_scaled

SpecDpiScale == InitDpi /\ [][NextDpiScale]_vars

\* get_paper_type called directly, as tests.py calls it: small point sizes,
\* the sizes of the tests, and for every millimetre value of PAPER_SIZES the
\* smallest point size that converts to it
TablePoints ==
    {(360 * e[i] + 126) \div 127 : e \in PAPER_SIZES, i \in {1, 2}}
PaperDims == (1..MaxPoint) \cup {611, 792, 598, 842} \cup TablePoints

InitPaper ==
    /\ ProcessCalled
    /\ jobs = DefaultJobs
    /\ image_sizes = ImageSizes
    /\ NoDpiCall
    /\ paper_args \in PaperDims \X PaperDims
    /\ paper_mm = <<>>
    /\ paper_ret = <<>>

call_get_paper_type ==
    /\ paper_ret = <<>>
    /\ paper_mm' = <<mm(paper_args[1]), mm(paper_args[2])>>
    /\ paper_ret' = get_paper_type(paper_args[1], paper_args[2])
    /\ UNCHANGED <<coordVars, files, queueVars, workerVars, histVars, toolFailed>>
    /\ UNCHANGED <<dpi_args, dpi_ret, dpi_scaled, paper_args, image_sizes>>

NextPaper == call_get_paper_type

SpecPaper == InitPaper /\ [][NextPaper]_vars

\* ------------------------------------------------------------------ claims
Ran(stage) == \E i \in 1..Len(stages) : stages[i] = stage
InStep == {"identify", "convert", "tesseract", "mogrify", "hocr2pdf"}
Abs(x) == IF x < 0 THEN -x ELSE x

\* C1: every run with jobs >= 1 that reaches the drain-wait (queue.join())
\* eventually leaves it and reaches cleanup (rmtree), whatever pages fail.
C1_DrainWaitEnds == (pc = "join" /\ jobs >= 1) ~> (pc = "rmtree")

\* C2: every unit a worker dequeues is acknowledged (task_done) exactly once
\* by that worker, on the normal and on the exception path, and only after
\* the per-page step for that unit has ended.
C2_AckOnAllPaths ==
    /\ \A p \in PageIds : acked[p] <= 1 /\ acked[p] <= gets[p]
    /\ \A w \in Workers :
          /\ wpc[w] \in {"get", "dead"} => unacked[w] = 0
          /\ wpc[w] \in InStep \cup {"finally"} =>
                unacked[w] = 1 /\ acked[wunit[w][1]] = 0

C2_Witness ==
    /\ \E p \in failed : p > Len(resolution) /\ acked[p] = 1
    /\ \E p \in PageIds \ failed : acked[p] = 1 /\ rendered[p] # {}
    /\ \E w \in Workers : wpc[w] = "dead"

\* C3: when all per-page steps succeed, merge_pdf is invoked exactly once and
\* its input is the rendered page of each image, in page-index order 1..N.
C3_MergeInPageOrder ==
    /\ Len(merges) <= 1
    /\ (pc = "done" /\ ~raised) => Len(merges) = 1
    /\ (merges # <<>> /\ failed = {}) =>
          /\ Len(merges[1]) = Len(images)
          /\ \A i \in 1..Len(images) : rendered[i] = {merges[1][i]}

C3_Witness ==
    /\ Len(merges) = 1 /\ failed = {}
    /\ Len(images) >= 2 /\ num_workers >= 2
    /\ pc = "done" /\ ~raised

\* C4: if any external tool invocation fails during a run, the run ends in
\* failure: the error reaches the caller of process().
C4_ToolFailureFailsRun == (pc = "done" /\ toolFailed) => raised

\* C5: whenever process() returns control, the workspace it created has been
\* removed, and once it is removed nothing of the run uses it any more.
C5_WorkspaceRemoved ==
    /\ pc = "done" => tmp # "exists"
    /\ (pc = "done" /\ Ran("get_resolution")) => tmp = "removed"
    /\ tmp = "removed" =>
          /\ pc = "done"
          /\ queue = <<>>
          /\ \A w \in Workers : wpc[w] \in {"get", "dead"}

C5_Witness ==
    /\ pc = "done" /\ tmp = "removed" /\ raised
    /\ Ran("merge_pdf") /\ num_workers >= 1 /\ rendered[1] # {}

\* C6: the units put on the queue are (i, i-th image of the sorted list) for
\* i = 1, 2, ..., each once, all N of them once dispatch is over; every unit
\* put is either still in the queue once or was dequeued once, never both.
C6_DispatchExactlyOnce ==
    /\ Len(dispatched) = idx
    /\ \A k \in 1..idx : dispatched[k] = <<k, images[k]>>
    /\ \A i, j \in 1..Len(images) : i < j => StrLess(images[i], images[j])
    /\ Ran("join") => idx = Len(images)
    /\ \A k \in 1..idx :
          Cardinality({i \in 1..Len(queue) : queue[i] = dispatched[k]}) + gets[k] = 1
    /\ \A p \in PageIds \ (1..idx) : gets[p] = 0

C6_Witness ==
    /\ Ran("join") /\ idx = 2
    /\ gets[1] = 1 /\ gets[2] = 1
    /\ num_workers = 2

\* C7: for positive page count and job limit, the number of worker threads
\* started is min(page count, job limit), and so at least 1.
C7_PoolSize ==
    (Ran("start_workers") /\ Len(images) >= 1 /\ jobs >= 1) =>
        /\ Cardinality(Workers) <= Len(images)
        /\ Cardinality(Workers) <= jobs
        /\ Cardinality(Workers) \in {Len(images), jobs}
        /\ Cardinality(Workers) >= 1

C7_Witness ==
    /\ Ran("start_workers") /\ Len(images) = 1 /\ jobs = 2
    /\ Cardinality(Workers) = 1

\* C8: at most `jobs` pages are inside ocr_page at any time, and a worker has
\* at most one unit in progress: it dequeues only with nothing unacknowledged.
C8_BoundedConcurrency ==
    /\ Cardinality({w \in Workers : wpc[w] \in InStep}) <= jobs
    /\ Cardinality({w \in Workers : unacked[w] > 0}) <= jobs
    /\ \A w \in Workers : unacked[w] <= 1 /\ (wpc[w] = "get" => unacked[w] = 0)

C8_Witness ==
    /\ jobs = 2
    /\ Cardinality({w \in Workers : wpc[w] \in InStep}) = 2

\* C9: a run that extracted zero images, or a number of images different from
\* the number of resolution table entries, ends with an error and never
\* invokes merge_pdf.
C9_StructuralIssueIsAnError ==
    (Ran("extract_images") /\ (pc = "start_workers" \/ Ran("start_workers"))
       /\ (Len(images) = 0 \/ Len(images) # Len(resolution))) =>
        /\ merges = <<>>
        /\ pc = "done" => raised

\* C10: compute_dpi returns on each axis the integer nearest to
\* image * 72 / pdf, the two axes independently of each other, and
\* compute_dpi(611, 792, 2544, 3300) = (300, 300).
C10_NearestDpi ==
    dpi_ret # <<>> =>
        LET pdf_w == dpi_args[1]
            pdf_h == dpi_args[2]
            image_w == dpi_args[3]
            image_h == dpi_args[4]
        IN  /\ 2 * Abs(dpi_ret[1] * pdf_w - 72 * image_w) <= pdf_w
            /\ 2 * Abs(dpi_ret[2] * pdf_h - 72 * image_h) <= pdf_h
            /\ \A h \in PointDims, ih \in PixelDims :
                  compute_dpi(pdf_w, h, image_w, ih)[1] = dpi_ret[1]
            /\ \A w \in PointDims, iw \in PixelDims :
                  compute_dpi(w, pdf_h, iw, image_h)[2] = dpi_ret[2]
            /\ dpi_args = <<611, 792, 2544, 3300>> => dpi_ret = <<300, 300>>

C10_Witness == dpi_args = <<611, 792, 2544, 3300>> /\ dpi_ret = <<300, 300>>

C12_PaperType ==
    paper_ret # <<>> =>
        LET InOrder == {e \in PAPER_SIZES : e[1] = paper_mm[1] /\ e[2] = paper_mm[2]}
            Swapped == {e \in PAPER_SIZES : e[1] = paper_mm[2] /\ e[2] = paper_mm[1]}
        IN  /\ \A e \in InOrder : paper_ret = <<e[3], "">>
            /\ InOrder = {} => \A e \in Swapped : paper_ret = <<e[3], ", landscape">>
            /\ (InOrder = {} /\ Swapped = {}) => paper_ret = <<"", "">>
            /\ paper_args = <<611, 792>> => paper_ret = <<"US Letter", "">>
            /\ paper_args = <<792, 611>> => paper_ret = <<"US Letter", ", landscape">>
            /\ paper_args = <<598, 842>> => paper_ret = <<"A4", "">>

C12_Witness ==
    /\ paper_args = <<792, 611>>
    /\ paper_ret = <<"US Letter", ", landscape">>

\* C13: a worker whose per-page step fails stays in the pool: after any
\* sequence of page failures as many workers are alive as were started.
C13_WorkersSurviveFailures ==
    Cardinality({w \in Workers : wpc[w] # "dead"}) = num_workers

\* C14: queue.join() returns if and only if every unit put has been
\* acknowledged: it has returned only with as many task_done() calls as
\* put() calls, it can return as soon as they are equal and not before, and
\* acknowledged <= dequeued <= dispatched at all times.
RECURSIVE Sum(_, _)
Sum(f, S) ==
    IF S = {} THEN 0
    ELSE LET x == CHOOSE y \in S : TRUE IN f[x] + Sum(f, S \ {x})

C14_JoinIffAllAcked ==
    /\ Ran("join") => Sum(acked, PageIds) = Len(dispatched) /\ idx = Len(images)
    /\ (pc = "join" /\ Sum(acked, PageIds) = Len(dispatched)) => ENABLED join
    /\ (pc = "join" /\ Sum(acked, PageIds) < Len(dispatched)) => ~ENABLED join
    /\ Sum(acked, PageIds) <= Sum(gets, PageIds)
    /\ Sum(gets, PageIds) <= Len(dispatched)

C14_Witness ==
    /\ pc = "join" /\ Len(dispatched) = 2
    /\ Sum(acked, PageIds) = 1 /\ Sum(gets, PageIds) = 2
    /\ ~ENABLED join

\* C20: while the coordinator collects the page PDFs, runs merge_pdf (and
\* ls) or removes the workspace, and afterwards, no worker is inside a
\* per-page step: every live worker waits on an empty queue.
C20_QuiescentAtMerge ==
    pc \in {"glob", "merge_pdf", "ls", "rmtree", "done"} =>
        /\ queue = <<>>
        /\ unfinished_tasks = 0
        /\ \A w \in Workers : wpc[w] \in {"get", "dead"} /\ wunit[w] = NoUnit

C20_Witness ==
    /\ pc = "merge_pdf"
    /\ \E w \in Workers : wpc[w] = "get"
    /\ \E w \in Workers : wpc[w] = "dead"
    /\ \E p \in PageIds : rendered[p] # {}

\* the steps of process() in program order
StageOrder ==
    <<"mkdtemp", "get_resolution", "extract_images", "start_workers", "put",
      "join", "glob", "merge_pdf", "ls", "rmtree">>
Pos(stage) == CHOOSE i \in 1..Len(StageOrder) : StageOrder[i] = stage

\* the stages run in program order, each at most once; only a failure skips
\* stages, and it skips to rmtree; a failure of get_resolution or
\* extract_images starts no worker, dispatches nothing and merges nothing
StagesInOrder ==
    /\ stages # <<>> => stages[1] = "mkdtemp"
    /\ \A i, j \in 1..Len(stages) : i < j => Pos(stages[i]) < Pos(stages[j])
    /\ \A i \in 1..(Len(stages) - 1) :
          \/ Pos(stages[i + 1]) = Pos(stages[i]) + 1
          \/ stages[i] = "start_workers" /\ stages[i + 1] = "join" /\ images = <<>>
          \/ stages[i + 1] = "rmtree" /\ raised
    /\ (raised /\ ~Ran("start_workers")) =>
          Workers = {} /\ dispatched = <<>> /\ merges = <<>>

\* C15: the stages of process() happen in the order create workspace,
\* resolution inspection, extraction, dispatch, drain-wait, Merge, Cleanup,
\* each at most once; a failure in any stage moves directly to Cleanup,
\* skipping every later stage, and Cleanup is the last stage of every run.
C15_StagesEndInCleanup ==
    /\ StagesInOrder
    /\ raised => pc \in {"rmtree", "done"}
    /\ raised => (pc = "rmtree" \/ stages[Len(stages)] = "rmtree")
    /\ pc = "done" => stages[Len(stages)] = "rmtree"

\* C15 as amended: as C15 for every run whose workspace was created; a run
\* whose workspace creation (mkdtemp) fails ends at once, without Cleanup.
C15_StagesEndInCleanupOnceCreated ==
    /\ StagesInOrder
    /\ raised => pc \in {"rmtree", "done"}
    /\ (raised /\ tmp # "none") => (pc = "rmtree" \/ stages[Len(stages)] = "rmtree")
    /\ (pc = "done" /\ tmp # "none") => stages[Len(stages)] = "rmtree"
    /\ (pc = "done" /\ tmp = "none") => stages = <<"mkdtemp">> /\ raised

C15_Witness ==
    /\ pc = "done" /\ raised
    /\ stages = <<"mkdtemp", "get_resolution", "extract_images", "rmtree">>
    /\ Workers = {}

\* C18: get_paper_type converts each point dimension to millimetres as
\* round(dots / 7.2 * 2.54), the nearest integer, before the table lookup.
C18_MmRounded ==
    paper_mm # <<>> =>
        \A i \in {1, 2} :
            2 * Abs(360 * paper_mm[i] - 127 * paper_args[i]) <= 360

\* C18 as amended: the conversion is int(dots / 7.2 * 2.54), which truncates:
\* the millimetre value is the largest integer not above dots * 2.54 / 7.2.
C18_MmTruncated ==
    paper_mm # <<>> =>
        /\ \A i \in {1, 2} :
              /\ 360 * paper_mm[i] <= 127 * paper_args[i]
              /\ 127 * paper_args[i] < 360 * (paper_mm[i] + 1)
        /\ paper_ret = paper_name(paper_mm[1], paper_mm[2])

C18_Witness ==
    /\ paper_args = <<611, 792>>
    /\ paper_mm = <<215, 279>>
    /\ paper_ret = <<"US Letter", "">>

\* the position of a tool in ocr_page
ToolRank(tool) ==
    CASE tool = "identify" -> 1
      [] tool = "convert" -> 2
      [] tool = "tesseract" -> 3
      [] tool = "mogrify" -> 4
      [] tool = "hocr2pdf" -> 5

\* the tools that ran before position i of a worker's log
Before(L, i) == {L[j][1] : j \in 1..(i - 1)}

\* the tools ocr_page must have run before it runs the given one
Required(tool) ==
    CASE tool = "identify" -> {}
      [] tool = "convert" -> {"identify"}
      [] tool = "tesseract" -> {"identify", "convert"}
      [] tool = "mogrify" -> {"identify", "convert", "tesseract"}
      [] tool = "hocr2pdf" -> {"identify", "convert", "tesseract"}

\* C16: within one per-page step the tools run in the order convert,
\* tesseract, optional mogrify, hocr2pdf, each at most once and never
\* without the ones before it (tesseract always before mogrify); a failed
\* tool is the last one of the step, the worker is then on its way out with
\* the exception and no page PDF exists or is returned for that page.
C16_StepOrder ==
    \A w \in Workers :
        LET L == wlog[w] IN
        /\ wpc[w] = "get" => L = <<>>
        /\ \A i \in 1..Len(L) :
              /\ \A j \in 1..(i - 1) : ToolRank(L[j][1]) < ToolRank(L[i][1])
              /\ Required(L[i][1]) \subseteq Before(L, i)
              /\ i < Len(L) => L[i][2]
        /\ (L # <<>> /\ ~L[Len(L)][2]) =>
              /\ wpc[w] = "finally"
              /\ wexc[w]
              /\ rendered[wunit[w][1]] = {}
              /\ pdf_of(wunit[w][2]) \notin files
        /\ (wpc[w] \in InStep \cup {"finally"} /\ rendered[wunit[w][1]] # {}) =>
              /\ L # <<>>
              /\ L[Len(L)] = <<"hocr2pdf", TRUE, wdpi[w]>>

\* recognition fails after conversion wrote the PNG, while another page has
\* been rendered
C16_Witness ==
    \E w \in Workers :
        /\ Len(wlog[w]) = 3
        /\ wlog[w][3][1] = "tesseract" /\ ~wlog[w][3][2]
        /\ png_of(wunit[w][2]) \in files
        /\ \E p \in PageIds : p # wunit[w][1] /\ rendered[p] # {}

\* C17: ocr_page runs mogrify exactly when the computed horizontal dpi is at
\* least 600, whatever the vertical dpi; hocr2pdf gets the computed
\* horizontal dpi halved by integer division in that case and the computed
\* horizontal dpi itself otherwise.
C17_Downsampling ==
    \A w \in Workers :
        LET L == wlog[w]
            computed == L[1][3]
            resize == computed[1] >= 600
        IN  (L # <<>> /\ L[1][2]) =>
            /\ (Len(L) = 3 /\ L[3][2]) =>
                  wpc[w] = IF resize THEN "mogrify" ELSE "hocr2pdf"
            /\ Len(L) >= 4 => (L[4][1] = "mogrify" <=> resize)
            /\ \A i \in 1..Len(L) :
                  L[i][1] = "hocr2pdf" =>
                      L[i][3][1] = IF resize THEN computed[1] \div 2 ELSE computed[1]

\* 601 x 300 dpi is resized and composited at 300
C17_Witness ==
    \E w \in Workers :
        /\ Len(wlog[w]) = 5
        /\ wlog[w][1] = <<"identify", TRUE, <<601, 300>>>>
        /\ wlog[w][4][1] = "mogrify"
        /\ wlog[w][5] = <<"hocr2pdf", TRUE, <<300, 300>>>>

\* 599 x 600 dpi is not resized
C17_WitnessVertical ==
    \E w \in Workers :
        /\ Len(wlog[w]) = 4
        /\ wlog[w][1] = <<"identify", TRUE, <<599, 600>>>>
        /\ wlog[w][4] = <<"hocr2pdf", TRUE, <<599, 600>>>>

\* the files ocr_page writes for an image
FilesOf(image) == {png_of(image), hocr_of(image), pdf_of(image)}

\* C19: the files ocr_page writes for two distinct images returned by
\* extract_images are pairwise distinct, so two workers never write the same
\* file, and the workspace holds one page PDF per page that was rendered.
C19_NoCollisions ==
    /\ \A i, j \in 1..Len(images) :
          i # j => FilesOf(images[i]) \cap FilesOf(images[j]) = {}
    /\ \A i \in 1..Len(images) : Cardinality(FilesOf(images[i])) = 3
    /\ \A w, v \in Workers :
          (w # v /\ wpc[w] \in InStep /\ wpc[v] \in InStep) =>
              FilesOf(wunit[w][2]) \cap FilesOf(wunit[v][2]) = {}
    /\ tmp = "exists" =>
          Cardinality(glob(files, PDF)) =
              Cardinality({p \in PageIds : rendered[p] # {}})

\* two workers have rendered images of different types
C19_Witness ==
    /\ Len(images) = 2
    /\ images[1][Len(images[1])] # images[2][Len(images[2])]
    /\ Cardinality(glob(files, PDF)) = 2
    /\ \E w, v \in Workers :
          /\ w # v
          /\ wlog[w] # <<>> /\ wlog[w][Len(wlog[w])][1] = "hocr2pdf"
          /\ wlog[v] # <<>> /\ wlog[v][Len(wlog[v])][1] = "hocr2pdf"

====
